---- MODULE Spec2Model ----
(***************************************************************************)
(* The typing session engine of react-typing-mvp, as the component that    *)
(* App mounts: TypingFastCached.  A state of the model is the component's  *)
(* React state (pos, report), its refs (startTsRef, finishedRef,           *)
(* spansRef), the DOM spans the verdict classes and typed characters live  *)
(* on, the props (problem, autoSubmit, onFinish) and the clock.            *)
(*                                                                         *)
(* One action is one event with the whole handler it runs, followed by the *)
(* synchronous re-render React commits for a discrete event.  Inside a     *)
(* handler `pos` and `chars` are the values of the render the handler was  *)
(* created in; setPos only queues the value of the next render.            *)
(***************************************************************************)
EXTENDS Integers, Sequences, FiniteSets, TLC

VARIABLES
  problem,        \* index into Problems: the `problem` prop
  autoSubmit,     \* the `autoSubmit` prop
  onFinish,       \* TRUE iff the `onFinish` prop is supplied
  pos,            \* useState(0)
  startTsRef,     \* startTsRef.current, 0 for null
  finishedRef,    \* finishedRef.current
  report,         \* useState(null): NoReport or the summary record
  spansRef,       \* spansRef.current: an array of "el" / "null" / "hole"
  dom,            \* the rendered prompt spans: class and dataset.typedChar
  fetchCalls,     \* POSTs to /api/attempts since the last reset or prompt change
  onFinishCalls,  \* onFinish invocations since the last reset or prompt change
  attempt,        \* the Attempt Record built since the last reset or prompt change
  currentAcc,     \* the live accuracy the last render computed
  now,            \* Date.now()
  wpmCall,        \* a call calcWPM(charsCount, ms) and the value it returned
  posts,          \* the POSTs to /api/attempts made so far, each with its outcome
  cachedRects,    \* cachedRects.current
  caret,          \* the caret element: where its transform puts it, and how
  raf,            \* the requestAnimationFrame callbacks not yet run
  width,          \* the viewport width the prompt is laid out at
  queried,        \* TRUE iff the last step read live layout
  fast,           \* a TypingFast given the same props and events: its state
  rendering,      \* a render of a problem object: its code and text, the outcome
  server,         \* server/index.js: the db file, db.data, requests in flight
  firstKey,       \* the time of the first accepted keystroke of the session, or 0
  twin,           \* a second run of the component fed the same props and events
  test            \* the TypingTest component: typed, currentIndex, its listener

vars == <<problem, autoSubmit, onFinish, pos, startTsRef, finishedRef, report,
          spansRef, dom, fetchCalls, onFinishCalls, attempt, currentAcc, now,
          wpmCall, posts, cachedRects, caret, raf, width, queried, fast,
          rendering, server, firstKey, twin, test>>

\* what the specifications of the session, the server and the renders leave
\* alone
aux == <<firstKey, twin, test>>

\* the geometry cache and the caret
geo == <<cachedRects, caret, raf, width, queried>>

----------------------------------------------------------------------------
(* Bounds *)

\* the clock runs from 1 to MaxTime
MaxTime == 3

\* no prompt of Problems is longer than MaxLen; dom has MaxLen slots
MaxLen == 5

\* calcWPM is called with 0..MaxChars characters ...
MaxChars == 25

\* ... over 0..MaxMs milliseconds and over 1..MaxSeconds whole seconds
MaxMs == 10
MaxSeconds == 60

\* at most MaxPosts POSTs are followed to their outcome
MaxPosts == 2

\* at most MaxPending requested animation frame callbacks wait for a frame
MaxPending == 2

----------------------------------------------------------------------------
(* Prompt model *)

NL == "\n"
SP == " "

\* the problems the problem source supplies; the last has no text
Problems ==
  << [id |-> "p1", hasText |-> TRUE,  text |-> <<"a", "b">>],
     [id |-> "p2", hasText |-> TRUE,  text |-> <<"a", NL, "b">>],
     [id |-> "p3", hasText |-> TRUE,  text |-> <<SP, SP, SP, SP, "a">>],
     [id |-> "p4", hasText |-> FALSE, text |-> <<>>] >>

\* const text = problem?.code ?? problem?.text ?? ""   (no problem carries code)
TextOf(p) == IF p.hasText THEN p.text ELSE <<>>

\* const chars = [...text]
CharsOf(i) == TextOf(Problems[i])

chars == CharsOf(problem)

----------------------------------------------------------------------------
(* The code and text of a problem object as JavaScript values *)

\* strings of a problem object are at most MaxText characters long, and its
\* numbers at most MaxNumber
MaxText == 2
MaxNumber == 1

Undefined == [type |-> "undefined"]
Null == [type |-> "null"]
Str(s) == [type |-> "string", val |-> s]
Num(n) == [type |-> "number", val |-> n]

\* what the code or the text of a problem object can be
TextValues ==
  {Undefined, Null}
    \cup {Str(s) : s \in UNION {[1..n -> {"a", NL}] : n \in 0..MaxText}}
    \cup {Num(n) : n \in 0..MaxNumber}

\* a ?? b
Coalesce(a, b) == IF a.type \in {"undefined", "null"} THEN b ELSE a

\* const text = problem?.code ?? problem?.text ?? ""
TextProp(p) == Coalesce(Coalesce(p.code, p.text), Str(<<>>))

\* [...text]: the characters of a string; a number is not iterable
Spread(v) ==
  IF v.type = "string" THEN [threw |-> FALSE, chars |-> v.val]
  ELSE [threw |-> TRUE, chars |-> <<>>]

\* no problem object is being rendered
NoRendering == [outcome |-> "none"]

----------------------------------------------------------------------------
(* Key events *)

\* e.key of the events fed to the engine; mod is e.ctrlKey || e.metaKey
KeyEvents ==
  [key : {"a", "b", SP, "Enter", "Tab", "Backspace", "Escape", "ArrowLeft"},
   mod : {FALSE}]
  \cup [key : {"v", "V", "a"}, mod : {TRUE}]

\* the keys typed where the geometry is followed
CaretKeys ==
  {e \in KeyEvents : ~e.mod /\ e.key \in {"a", "Backspace", "Escape"}}

\* the keys typed where the two components are compared
BothKeys ==
  {e \in KeyEvents : ~e.mod /\ e.key \in {"a", "Enter", "Backspace", "Escape"}}

\* the keys typed where the clock is followed
TimedKeys ==
  {e \in KeyEvents : ~e.mod /\ e.key \in {"a", "Backspace", "Escape", "ArrowLeft"}}

\* the viewport widths
Widths == {"narrow", "wide"}

\* e.key.toLowerCase()
ToLowerCase(k) == IF k = "V" THEN "v" ELSE k

----------------------------------------------------------------------------
(* The DOM spans and the ref array *)

NoChar == ""
Blank == [cls |-> "none", typed |-> NoChar]
BlankDom == [i \in 1..MaxLen |-> Blank]

\* spansRef.current[idx] (idx 0-based) is an element
HasSpan(refs, idx) == idx + 1 <= Len(refs) /\ refs[idx + 1] = "el"

\* arr[idx] = v on a JavaScript array (idx 0-based): holes fill the gap
RECURSIVE Holes(_)
Holes(n) == IF n <= 0 THEN <<>> ELSE Append(Holes(n - 1), "hole")

SetIdx(arr, idx, v) ==
  IF idx + 1 <= Len(arr) THEN [arr EXCEPT ![idx + 1] = v]
  ELSE Append(arr \o Holes(idx - Len(arr)), v)

\* the render of (cs, rep) gives position idx a span with a ref callback:
\* the prompt is rendered only while report is null, and the span of a
\* newline has no ref
NoReport == [set |-> FALSE]
HasRef(cs, rep, idx) == rep = NoReport /\ idx + 1 <= Len(cs) /\ cs[idx + 1] # NL

\* every ref callback of the render (cs, rep) called with v, in index order
RECURSIVE CallRefs(_, _, _, _, _)
CallRefs(arr, cs, rep, v, idx) ==
  IF idx >= Len(cs) THEN arr
  ELSE CallRefs(IF HasRef(cs, rep, idx) THEN SetIdx(arr, idx, v) ELSE arr,
                cs, rep, v, idx + 1)

\* a commit from render (oldCs, oldRep) to render (newCs, newRep): the old
\* ref callbacks are called with null, then the new ones with the element
CommitRefs(arr, oldCs, oldRep, newCs, newRep) ==
  CallRefs(CallRefs(arr, oldCs, oldRep, "null", 0), newCs, newRep, "el", 0)

\* the span nodes after that commit: a node is kept when both renders have a
\* span with key i; React rewrites its class attribute only when the
\* className prop changes, and never touches dataset.typedChar
CommitDom(d, oldCs, oldRep, newCs, newRep) ==
  [i \in 1..MaxLen |->
     IF newRep # NoReport \/ i > Len(newCs) THEN Blank
     ELSE IF oldRep # NoReport \/ i > Len(oldCs) THEN Blank
     ELSE [cls   |-> IF oldCs[i] # NL /\ newCs[i] # NL THEN d[i].cls ELSE "none",
           typed |-> d[i].typed]]

----------------------------------------------------------------------------
(* Metrics *)

\* Math.round(n / d) for n >= 0, d > 0
Round(n, d) == (2 * n + d) \div (2 * d)

\* JavaScript numbers are IEEE-754 doubles.  A positive double is a record
\* [m, e] of value m * 2^e with a 53-bit significand 2^52 <= m < 2^53; m is
\* kept as two limbs <<hi, lo>> of value hi * Limb + lo.
Limb == 2^30

FZero == [zero |-> TRUE]

BigGeq(a, b) == a[1] > b[1] \/ (a[1] = b[1] /\ a[2] >= b[2])

BigSub(a, b) ==
  IF a[2] >= b[2] THEN <<a[1] - b[1], a[2] - b[2]>>
  ELSE <<a[1] - b[1] - 1, a[2] + Limb - b[2]>>

BigTwice(a) == <<2 * a[1] + (2 * a[2]) \div Limb, (2 * a[2]) % Limb>>

BigHalf(a) == <<a[1] \div 2, (a[1] % 2) * (Limb \div 2) + a[2] \div 2>>

BigInc(a) == IF a[2] + 1 = Limb THEN <<a[1] + 1, 0>> ELSE <<a[1], a[2] + 1>>

BigOdd(a) == a[2] % 2 = 1

\* a * 2^k for a = <<0, n>>, the result below 2^53
BigShiftLeft(a, k) ==
  IF k >= 30 THEN <<a[2] * 2^(k - 30), 0>>
  ELSE <<a[2] \div 2^(30 - k), (a[2] % 2^(30 - k)) * 2^k>>

\* the number of bits of n, 0 < n < Limb
BitLength(n) == CHOOSE b \in 1..30 : 2^(b - 1) <= n /\ n < 2^b

\* the double of an integer 0 <= n < Limb (exact): n shifted up to 53 bits
ToDouble(n) ==
  IF n = 0 THEN FZero
  ELSE [zero |-> FALSE, m |-> BigShiftLeft(<<0, n>>, 53 - BitLength(n)),
        e |-> BitLength(n) - 53]

\* one step of binary long division by y: s.q gathers the quotient bits,
\* s.r is the remainder
DivStep(s, y) ==
  IF BigGeq(s.r, y)
  THEN [q |-> BigInc(BigTwice(s.q)), r |-> BigTwice(BigSub(s.r, y))]
  ELSE [q |-> BigTwice(s.q), r |-> BigTwice(s.r)]

\* k steps of it: the first half of the steps, then the rest from the
\* state h they leave
RECURSIVE DivLoop(_, _, _)
DivLoop(s, y, k) ==
  IF k = 0 THEN s
  ELSE IF k = 1 THEN DivStep(s, y)
  ELSE CHOOSE t \in {DivLoop(h, y, k - k \div 2) :
                        h \in {DivLoop(s, y, k \div 2)}} : TRUE

\* a significand that rounding carried up to 2^53 is renormalized
FPack(m, e) ==
  IF m[1] >= 2^23 THEN [zero |-> FALSE, m |-> BigHalf(m), e |-> e + 1]
  ELSE [zero |-> FALSE, m |-> m, e |-> e]

\* the 54-bit quotient d.q with remainder d.r rounded to 53 bits to nearest,
\* ties to even
FRoundEven(d, e) ==
  FPack(IF BigOdd(d.q) /\ (d.r # <<0, 0>> \/ BigOdd(BigHalf(d.q)))
        THEN BigInc(BigHalf(d.q)) ELSE BigHalf(d.q),
        e)

\* x / y from k steps of long division of the significands
FDivSteps(x, y, k) ==
  FRoundEven(DivLoop([q |-> <<0, 0>>, r |-> x.m], y.m, k), x.e - y.e - k + 2)

\* x / y on doubles, y positive: the exact quotient to 54 bits, rounded
FDiv(x, y) ==
  IF x.zero THEN FZero
  ELSE FDivSteps(x, y, IF BigGeq(x.m, y.m) THEN 54 ELSE 55)

\* floor(a / 2^k) for a below 2^53 and k >= 0
BigShiftRight(a, k) ==
  IF k >= 60 THEN <<0, 0>>
  ELSE IF k >= 30 THEN <<0, a[1] \div 2^(k - 30)>>
  ELSE <<a[1] \div 2^k, (a[1] % 2^k) * 2^(30 - k) + a[2] \div 2^k>>

\* Math.round(x) for a double 0 <= x < Limb: floor(x + 1/2)
MathRound(x) ==
  IF x.zero THEN 0
  ELSE BigHalf(BigInc(BigShiftRight(x.m, (0 - x.e) - 1)))[2]

\* calcWPM(charsCount, ms), for charsCount >= 0: minutes > 0 iff ms > 0.
\* words and minutes are the two consts, each rounded to a double before
\* they are divided.
calcWPM(charsCount, ms) ==
  IF ms > 0
  THEN CHOOSE wpm \in
         { MathRound(quotient) :
             quotient \in
               { FDiv(words, minutes) :
                   words   \in {FDiv(ToDouble(charsCount), ToDouble(5))},
                   minutes \in {FDiv(ToDouble(ms), ToDouble(60000))} } } : TRUE
  ELSE 0

\* a call that has not returned carries NoWpm; NoCall while none is made
NoWpm == -1
NoCall == [charsCount |-> 0, ms |-> 0, wpm |-> NoWpm]

\* the durations calcWPM is called with
MsValues == 0..MaxMs \cup {1000 * k : k \in 1..MaxSeconds}

\* s && s.classList.contains("correct"), summed over spansRef.current
CountCorrect(refs, d) ==
  Cardinality({i \in 1..Len(refs) : refs[i] = "el" /\ d[i].cls = "correct"})

\* calcAccuracy(typedLen).  (correct / typedLen) * 100 is computed in doubles;
\* with typedLen < 8 no quotient 100 * correct / typedLen is a tie, and the
\* double result rounds as the exact quotient does.
calcAccuracy(refs, d, typedLen) ==
  IF typedLen = 0 THEN 100
  ELSE Round(CountCorrect(refs, d) * 100, typedLen)

\* spansRef.current.map(s => s && s.dataset.typedChar ? ... : "").join("")
RECURSIVE TypedStrFrom(_, _, _)
TypedStrFrom(refs, d, i) ==
  IF i > Len(refs) THEN <<>>
  ELSE (IF refs[i] = "el" /\ d[i].typed # NoChar THEN <<d[i].typed>> ELSE <<>>)
       \o TypedStrFrom(refs, d, i + 1)

TypedStr(refs, d) == TypedStrFrom(refs, d, 1)

\* the live accuracy a render computes from the refs and spans it finds:
\* const currentAcc = typedCount ? calcAccuracy(typedCount) : 100
LiveAccuracy(refs, d) ==
  LET typedCount == Len(TypedStr(refs, d))
  IN IF typedCount # 0 THEN calcAccuracy(refs, d, typedCount) ELSE 100

----------------------------------------------------------------------------
(* States.  A state S is a record of the variables; a handler works on the *)
(* view E of S its render closed over: E.pos is the pos of that render and *)
(* E.next the value queued by setPos.                                      *)

NoAttempt == [set |-> FALSE]

\* the current state
Cur ==
  [problem |-> problem, autoSubmit |-> autoSubmit, onFinish |-> onFinish,
   pos |-> pos, startTsRef |-> startTsRef, finishedRef |-> finishedRef,
   report |-> report, spansRef |-> spansRef, dom |-> dom,
   fetchCalls |-> fetchCalls, onFinishCalls |-> onFinishCalls,
   attempt |-> attempt, currentAcc |-> currentAcc, now |-> now]

\* what the handlers of the render of S close over
View(S) == S @@ [chars |-> CharsOf(S.problem), next |-> S.pos]

\* a finishIfNeeded that forgets to raise the finished flag
FinishIfNeededNoFlag(E) ==
  IF E.finishedRef THEN E
  ELSE IF E.pos >= Len(E.chars) THEN
    LET durationMs == IF E.startTsRef # 0 THEN E.now - E.startTsRef ELSE 0
        typedStr   == TypedStr(E.spansRef, E.dom)
        wpm        == calcWPM(Len(typedStr), durationMs)
        accuracy   == calcAccuracy(E.spansRef, E.dom, Len(typedStr))
    IN [E EXCEPT
          !.attempt = [set |-> TRUE, user |-> "anon",
                       problemId |-> Problems[E.problem].id,
                       wpm |-> wpm, accuracy |-> accuracy,
                       rawText |-> typedStr, durationMs |-> durationMs],
          !.report = [set |-> TRUE, wpm |-> wpm, accuracy |-> accuracy,
                      durationMs |-> durationMs, rawText |-> typedStr],
          !.fetchCalls = IF E.autoSubmit THEN @ + 1 ELSE @,
          !.onFinishCalls = IF E.onFinish THEN @ + 1 ELSE @]
  ELSE E

\* a finishIfNeeded that calls onFinish only inside the autoSubmit branch
FinishIfNeededCallbackOnSubmit(E) ==
  IF E.finishedRef THEN E
  ELSE IF E.pos >= Len(E.chars) THEN
    LET durationMs == IF E.startTsRef # 0 THEN E.now - E.startTsRef ELSE 0
        typedStr   == TypedStr(E.spansRef, E.dom)
        wpm        == calcWPM(Len(typedStr), durationMs)
        accuracy   == calcAccuracy(E.spansRef, E.dom, Len(typedStr))
    IN [E EXCEPT
          !.finishedRef = TRUE,
          !.attempt = [set |-> TRUE, user |-> "anon",
                       problemId |-> Problems[E.problem].id,
                       wpm |-> wpm, accuracy |-> accuracy,
                       rawText |-> typedStr, durationMs |-> durationMs],
          !.report = [set |-> TRUE, wpm |-> wpm, accuracy |-> accuracy,
                      durationMs |-> durationMs, rawText |-> typedStr],
          !.fetchCalls = IF E.autoSubmit THEN @ + 1 ELSE @,
          !.onFinishCalls = IF E.autoSubmit /\ E.onFinish THEN @ + 1 ELSE @]
  ELSE E

\* a finishIfNeeded that completes only once the clock has moved on from the
\* start timestamp
FinishIfNeededAfterStart(E) ==
  IF E.finishedRef THEN E
  ELSE IF E.pos >= Len(E.chars) /\ E.now # E.startTsRef THEN
    LET durationMs == IF E.startTsRef # 0 THEN E.now - E.startTsRef ELSE 0
        typedStr   == TypedStr(E.spansRef, E.dom)
        wpm        == calcWPM(Len(typedStr), durationMs)
        accuracy   == calcAccuracy(E.spansRef, E.dom, Len(typedStr))
    IN [E EXCEPT
          !.finishedRef = TRUE,
          !.attempt = [set |-> TRUE, user |-> "anon",
                       problemId |-> Problems[E.problem].id,
                       wpm |-> wpm, accuracy |-> accuracy,
                       rawText |-> typedStr, durationMs |-> durationMs],
          !.report = [set |-> TRUE, wpm |-> wpm, accuracy |-> accuracy,
                      durationMs |-> durationMs, rawText |-> typedStr],
          !.fetchCalls = IF E.autoSubmit THEN @ + 1 ELSE @,
          !.onFinishCalls = IF E.onFinish THEN @ + 1 ELSE @]
  ELSE E

\* finishIfNeeded(now)
FinishIfNeeded(E) ==
  IF E.finishedRef THEN E
  ELSE IF E.pos >= Len(E.chars) THEN
    LET durationMs == IF E.startTsRef # 0 THEN E.now - E.startTsRef ELSE 0
        typedStr   == TypedStr(E.spansRef, E.dom)
        wpm        == calcWPM(Len(typedStr), durationMs)
        accuracy   == calcAccuracy(E.spansRef, E.dom, Len(typedStr))
    IN [E EXCEPT
          !.finishedRef = TRUE,
          !.attempt = [set |-> TRUE, user |-> "anon",
                       problemId |-> Problems[E.problem].id,
                       wpm |-> wpm, accuracy |-> accuracy,
                       rawText |-> typedStr, durationMs |-> durationMs],
          !.report = [set |-> TRUE, wpm |-> wpm, accuracy |-> accuracy,
                      durationMs |-> durationMs, rawText |-> typedStr],
          !.fetchCalls = IF E.autoSubmit THEN @ + 1 ELSE @,
          !.onFinishCalls = IF E.onFinish THEN @ + 1 ELSE @]
  ELSE E

\* a writeChar that ignores a keystroke beyond the end
WriteCharIgnoreOverflow(E, ch) ==
  IF E.finishedRef THEN E
  ELSE IF ~HasSpan(E.spansRef, E.pos) THEN E
  ELSE
    FinishIfNeeded(
      [E EXCEPT
         !.dom[E.pos + 1] =
            [cls   |-> IF ch = E.chars[E.pos + 1] THEN "correct" ELSE "incorrect",
             typed |-> ch],
         !.next = E.pos + 1])

\* writeChar(ch)
WriteChar(E, ch) ==
  IF E.finishedRef THEN E
  ELSE IF ~HasSpan(E.spansRef, E.pos) THEN
    \* beyond end: setPos((p) => p + 1)
    FinishIfNeeded([E EXCEPT !.next = @ + 1])
  ELSE
    FinishIfNeeded(
      [E EXCEPT
         !.dom[E.pos + 1] =
            [cls   |-> IF ch = E.chars[E.pos + 1] THEN "correct" ELSE "incorrect",
             typed |-> ch],
         !.next = E.pos + 1])

\* the classes and dataset of every span in spansRef.current cleared
ClearSpans(refs, d) ==
  [i \in 1..MaxLen |-> IF i <= Len(refs) /\ refs[i] = "el" THEN Blank ELSE d[i]]

\* fullReset()
FullReset(E) ==
  [E EXCEPT !.finishedRef = FALSE, !.startTsRef = 0, !.next = 0,
            !.report = NoReport,
            !.dom = ClearSpans(E.spansRef, E.dom),
            !.fetchCalls = 0, !.onFinishCalls = 0, !.attempt = NoAttempt]

\* the Backspace branch of handleKeyDown
Backspace(E) ==
  IF E.pos = 0 THEN E
  ELSE [E EXCEPT
          !.dom = IF HasSpan(E.spansRef, E.pos - 1)
                  THEN [@ EXCEPT ![E.pos] = Blank] ELSE @,
          !.next = E.pos - 1]

\* a handleKeyDown that starts the timer before it rejects the paste shortcut
HandleKeyDownTimerBeforePaste(E, e) ==
  LET T == IF E.startTsRef = 0 THEN [E EXCEPT !.startTsRef = E.now] ELSE E
  IN IF e.mod /\ ToLowerCase(e.key) = "v" THEN T
     ELSE CASE e.key = "Backspace" -> Backspace(T)
            [] e.key = "Enter" -> WriteChar(T, NL)
            [] e.key = "Tab" ->
                 WriteChar(WriteChar(WriteChar(WriteChar(T, SP), SP), SP), SP)
            [] e.key \notin {"Backspace", "Enter", "Tab"}
                 /\ Len(e.key) = 1 /\ ~e.mod -> WriteChar(T, e.key)
            [] e.key = "Escape" -> FullReset(T)
            [] OTHER -> T

\* handleKeyDown(e)
HandleKeyDown(E, e) ==
  IF e.mod /\ ToLowerCase(e.key) = "v" THEN E
  ELSE
    LET T == IF E.startTsRef = 0 THEN [E EXCEPT !.startTsRef = E.now] ELSE E
    IN CASE e.key = "Backspace" -> Backspace(T)
         [] e.key = "Enter" -> WriteChar(T, NL)
         [] e.key = "Tab" ->
              WriteChar(WriteChar(WriteChar(WriteChar(T, SP), SP), SP), SP)
         [] e.key \notin {"Backspace", "Enter", "Tab"}
              /\ Len(e.key) = 1 /\ ~e.mod -> WriteChar(T, e.key)
         [] e.key = "Escape" -> FullReset(T)
         [] OTHER -> T

\* the state after the handler that ran on the render of S left E: React
\* re-renders when pos or report changed, which calls the ref callbacks
Rendered(S, E) ==
  LET rerender == E.next # S.pos \/ E.report # S.report
      cs == CharsOf(S.problem)
  IN [problem |-> S.problem, autoSubmit |-> S.autoSubmit, onFinish |-> S.onFinish,
      pos |-> E.next, startTsRef |-> E.startTsRef, finishedRef |-> E.finishedRef,
      report |-> E.report,
      spansRef |-> IF rerender
                   THEN CommitRefs(E.spansRef, cs, S.report, cs, E.report)
                   ELSE E.spansRef,
      dom |-> IF rerender THEN CommitDom(E.dom, cs, S.report, cs, E.report)
              ELSE E.dom,
      fetchCalls |-> E.fetchCalls, onFinishCalls |-> E.onFinishCalls,
      attempt |-> E.attempt,
      currentAcc |-> IF rerender THEN LiveAccuracy(E.spansRef, E.dom)
                     ELSE E.currentAcc,
      now |-> S.now]

\* S after a keydown e on the hidden input
KeyStep(S, e) == Rendered(S, HandleKeyDown(View(S), e))

\* onPaste={(e) => e.preventDefault()}: the default insertion is cancelled
\* and the handler touches no state
OnPaste(E) == E

\* S after a paste event on the hidden input
PasteStep(S) == Rendered(S, OnPaste(View(S)))

\* S after a click on Reset or on Try Again: onClick={fullReset}
ResetStep(S) == Rendered(S, FullReset(View(S)))

\* S after the parent passed problem p: the component re-renders with the
\* new chars and its useLayoutEffect([problem?.id, text]) empties spansRef;
\* nothing else of the session is touched
ChangeStep(S, p) ==
  [S EXCEPT !.problem = p,
            !.dom = CommitDom(S.dom, CharsOf(S.problem), S.report,
                              CharsOf(p), S.report),
            !.spansRef = <<>>,
            !.currentAcc = LiveAccuracy(S.spansRef, S.dom),
            !.fetchCalls = 0, !.onFinishCalls = 0, !.attempt = NoAttempt]

\* a .catch handler that lets the session post again
OnFetchRejectedRetry(E) == [E EXCEPT !.finishedRef = FALSE]

\* .catch((e) => console.error("save attempt failed", e)): the handler of a
\* rejected POST writes the console and nothing else
OnFetchRejected(E) == E

CatchStep(S) == Rendered(S, OnFetchRejected(View(S)))

----------------------------------------------------------------------------
(* Geometry cache and caret.  A rectangle is named by what was measured:   *)
(* the span of position idx of a prompt laid out at a viewport width;      *)
(* different prompts, positions or widths give different rectangles.       *)

NoRect == [kind |-> "none"]
NullRect == [kind |-> "null", rect |-> NoRect]
HoleRect == [kind |-> "hole", rect |-> NoRect]

\* el.getBoundingClientRect() relative to the container, for the span of
\* position idx (0-based) of prompt p at width w
RectOf(p, idx, w) ==
  [kind |-> "rect", rect |-> [problem |-> p, idx |-> idx, width |-> w]]

\* where a transform puts the caret: on a rectangle, just right of one, at
\* the fallback (4, 4), or at the translate3d(0,0,0) of its style attribute
At(r) == [kind |-> "at", rect |-> r.rect]
After(r) == [kind |-> "after", rect |-> r.rect]
Origin == [kind |-> "origin", rect |-> NoRect]
Initial == [kind |-> "initial", rect |-> NoRect]

\* a requested animation frame callback: the one of the layout effect, or
\* () => { caret.style.transform = transform }
Measure == [kind |-> "measure", at |-> Origin]
Transform(t) == [kind |-> "transform", at |-> t]

\* the current geometry
Geo ==
  [cachedRects |-> cachedRects, caret |-> caret, raf |-> raf, width |-> width,
   queried |-> queried]

\* containerRef.current and caretRef.current are set while the prompt is
\* rendered, that is while report is null
ContainerMounted(S) == S.report = NoReport

\* computeSpanRects() on the render of S: spansRef.current.map(...) keeps
\* holes and maps a null element to null
ComputeSpanRects(S, G) ==
  IF ~ContainerMounted(S) THEN G
  ELSE [G EXCEPT
          !.queried = TRUE,
          !.cachedRects =
             [i \in 1..Len(S.spansRef) |->
                CASE S.spansRef[i] = "el" -> RectOf(S.problem, i - 1, G.width)
                  [] S.spansRef[i] = "null" -> NullRect
                  [] OTHER -> HoleRect]]

\* the transition of the caret element: the inline style of its first render,
\* and what "caret.style.transition = ''" leaves of it (no style sheet rule
\* gives .typing-caret a transition, and a re-render with an unchanged style
\* prop does not write it again)
Inline == "transform 0.08s linear"
Removed == ""

\* x, y of moveCaretToIndexCached(index): rects[index], else right of the
\* last rectangle, else the fallback
CaretTarget(rects, index) ==
  IF index < Len(rects) /\ rects[index + 1].kind = "rect"
  THEN At(rects[index + 1])
  ELSE IF Len(rects) > 0 /\ rects[Len(rects)].kind = "rect"
  THEN After(rects[Len(rects)])
  ELSE Origin

\* moveCaretToIndexCached(index, instant) on the render of S; it ends by
\* reading container.getBoundingClientRect(), scrollTop and clientHeight
MoveCaretToIndexCached(S, G, index, instant) ==
  IF ~ContainerMounted(S) THEN G
  ELSE [G EXCEPT
          !.queried = TRUE,
          !.caret = IF instant
                    THEN [at |-> CaretTarget(G.cachedRects, index),
                          move |-> "instant", transition |-> Removed]
                    ELSE @,
          !.raf = IF instant THEN @
                  ELSE Append(@, Transform(CaretTarget(G.cachedRects, index)))]

\* the geometry part of fullReset(): computeSpanRects(), then
\* moveCaretToIndexCached(0, true)
FullResetGeo(S, G) ==
  MoveCaretToIndexCached(S, ComputeSpanRects(S, G), 0, TRUE)

\* the pending callbacks without those of kind k
RECURSIVE Without(_, _)
Without(q, k) ==
  IF q = <<>> THEN <<>>
  ELSE IF Head(q).kind = k THEN Without(Tail(q), k)
  ELSE <<Head(q)>> \o Without(Tail(q), k)

\* the commit of the render S1 that follows the render S of the same prompt:
\* when the summary replaces the prompt the caret element is removed, and the
\* callbacks that hold it move a detached node from then on; when the prompt
\* replaces the summary a new caret element is created; then the [pos]
\* effect runs moveCaretToIndexCached(pos, false) if pos changed
CommitGeo(S, S1, G) ==
  LET G1 == IF ContainerMounted(S) /\ ~ContainerMounted(S1)
            THEN [G EXCEPT !.caret = [at |-> Initial, move |-> "none",
                                     transition |-> Inline],
                           !.raf = Without(@, "transform")]
            ELSE IF ~ContainerMounted(S) /\ ContainerMounted(S1)
            THEN [G EXCEPT !.caret = [at |-> Initial, move |-> "initial",
                                     transition |-> Inline]]
            ELSE G
  IN IF S1.pos # S.pos THEN MoveCaretToIndexCached(S1, G1, S1.pos, FALSE)
     ELSE G1

\* the geometry after a keydown e on the render of S: Escape runs fullReset
KeyGeo(S, G, e) ==
  CommitGeo(S, KeyStep(S, e),
            IF ~(e.mod /\ ToLowerCase(e.key) = "v") /\ e.key = "Escape"
            THEN FullResetGeo(S, [G EXCEPT !.queried = FALSE])
            ELSE [G EXCEPT !.queried = FALSE])

\* the geometry after a click on Reset or on Try Again
ResetGeo(S, G) ==
  CommitGeo(S, ResetStep(S), FullResetGeo(S, [G EXCEPT !.queried = FALSE]))

\* the geometry after a prompt change: the cleanup of the layout effect
\* cancels its frame if still pending, and the effect requests a new one
ChangeGeo(S, G) ==
  [G EXCEPT !.queried = FALSE,
            !.raf = Append(Without(@, "measure"), Measure)]

\* the geometry after a resize of the window to width w: onResize of the
\* render of S
ResizeGeo(S, G, w) ==
  MoveCaretToIndexCached(
    S, ComputeSpanRects(S, [G EXCEPT !.queried = FALSE, !.width = w]),
    S.pos, TRUE)

\* one requested callback run on the state S: a transform that differs from
\* the caret's is animated only if the element still has its transition
RunCallback(S, G, cb) ==
  IF cb.kind = "measure"
  THEN MoveCaretToIndexCached(S, ComputeSpanRects(S, G), 0, TRUE)
  ELSE IF cb.at = G.caret.at THEN G
  ELSE [G EXCEPT !.caret.at = cb.at,
                 !.caret.move = IF G.caret.transition = Inline THEN "animated"
                                ELSE "jump"]

RECURSIVE RunCallbacks(_, _, _)
RunCallbacks(S, G, q) ==
  IF q = <<>> THEN G
  ELSE RunCallbacks(S, RunCallback(S, G, Head(q)), Tail(q))

\* an animation frame: the callbacks requested so far run in request order
FrameGeo(S, G) ==
  RunCallbacks(S, [G EXCEPT !.queried = FALSE, !.raf = <<>>], G.raf)

----------------------------------------------------------------------------
(* TypingFast (client/src/TypingFast.jsx).  Its state F is a record of its *)
(* own state and refs; it shares the props and the clock of S.  It has no  *)
(* report state, and every prompt span, a newline's too, has a ref.        *)

\* TypingFast as mounted: its [problem?.id] effect emptied spansRef
FastInit ==
  [pos |-> 0, startTsRef |-> 0, finishedRef |-> FALSE, spansRef |-> <<>>,
   dom |-> BlankDom, fetchCalls |-> 0, onFinishCalls |-> 0,
   attempt |-> NoAttempt]

\* what the handlers of the render of F close over
FastView(S, F) ==
  F @@ [problem |-> S.problem, autoSubmit |-> S.autoSubmit,
        onFinish |-> S.onFinish, now |-> S.now, chars |-> CharsOf(S.problem),
        next |-> F.pos]

\* finishIfNeeded(now) of TypingFast
FastFinishIfNeeded(E) ==
  IF E.finishedRef THEN E
  ELSE IF E.pos >= Len(E.chars) THEN
    LET durationMs == IF E.startTsRef # 0 THEN E.now - E.startTsRef ELSE 0
        typedStr   == TypedStr(E.spansRef, E.dom)
        wpm        == calcWPM(Len(typedStr), durationMs)
        accuracy   == calcAccuracy(E.spansRef, E.dom, Len(typedStr))
    IN [E EXCEPT
          !.finishedRef = TRUE,
          !.attempt = [set |-> TRUE, user |-> "anon",
                       problemId |-> Problems[E.problem].id,
                       wpm |-> wpm, accuracy |-> accuracy,
                       rawText |-> typedStr, durationMs |-> durationMs],
          !.fetchCalls = IF E.autoSubmit THEN @ + 1 ELSE @,
          !.onFinishCalls = IF E.onFinish THEN @ + 1 ELSE @]
  ELSE E

\* writeChar(ch) of TypingFast
FastWriteChar(E, ch) ==
  IF E.finishedRef THEN E
  ELSE IF ~HasSpan(E.spansRef, E.pos) THEN
    FastFinishIfNeeded([E EXCEPT !.next = @ + 1])
  ELSE
    FastFinishIfNeeded(
      [E EXCEPT
         !.dom[E.pos + 1] =
            [cls   |-> IF ch = E.chars[E.pos + 1] THEN "correct" ELSE "incorrect",
             typed |-> ch],
         !.next = E.pos + 1])

\* fullReset() of TypingFast
FastFullReset(E) ==
  [E EXCEPT !.finishedRef = FALSE, !.startTsRef = 0, !.next = 0,
            !.dom = ClearSpans(E.spansRef, E.dom),
            !.fetchCalls = 0, !.onFinishCalls = 0, !.attempt = NoAttempt]

\* handleKeyDown(e) of TypingFast; its Backspace branch is that of
\* TypingFastCached
FastHandleKeyDown(E, e) ==
  IF e.mod /\ ToLowerCase(e.key) = "v" THEN E
  ELSE
    LET T == IF E.startTsRef = 0 THEN [E EXCEPT !.startTsRef = E.now] ELSE E
    IN CASE e.key = "Backspace" -> Backspace(T)
         [] e.key = "Enter" -> FastWriteChar(T, NL)
         [] e.key = "Tab" ->
              FastWriteChar(
                FastWriteChar(FastWriteChar(FastWriteChar(T, SP), SP), SP), SP)
         [] e.key \notin {"Backspace", "Enter", "Tab"}
              /\ Len(e.key) = 1 /\ ~e.mod -> FastWriteChar(T, e.key)
         [] e.key = "Escape" -> FastFullReset(T)
         [] OTHER -> T

\* the ref callbacks of a render of n spans called with v: every span has one
FastCallRefs(arr, n, v) ==
  [i \in 1..(IF Len(arr) > n THEN Len(arr) ELSE n) |->
     IF i <= n THEN v ELSE arr[i]]

\* F after the handler that ran on its render left E: a re-render when pos
\* changed calls the old ref callbacks with null and the new with the element
FastRendered(S, F, E) ==
  [pos |-> E.next, startTsRef |-> E.startTsRef, finishedRef |-> E.finishedRef,
   spansRef |-> IF E.next # F.pos
                THEN FastCallRefs(E.spansRef, Len(CharsOf(S.problem)), "el")
                ELSE E.spansRef,
   dom |-> E.dom, fetchCalls |-> E.fetchCalls,
   onFinishCalls |-> E.onFinishCalls, attempt |-> E.attempt]

\* F after a keydown e on its hidden input
FastKeyStep(S, F, e) == FastRendered(S, F, FastHandleKeyDown(FastView(S, F), e))

\* F after a click on its Reset button
FastResetStep(S, F) == FastRendered(S, F, FastFullReset(FastView(S, F)))

\* F after the parent passed problem p: the commit keeps the span nodes both
\* prompts have and attaches every ref, then the [problem?.id] effect clears
\* the spans in spansRef, empties it, resets the refs and calls setPos(0);
\* the re-render that follows when pos was not 0 attaches the refs again
FastChangeStep(S, F, p) ==
  [pos |-> 0, startTsRef |-> 0, finishedRef |-> FALSE,
   spansRef |-> IF F.pos # 0
                THEN FastCallRefs(<<>>, Len(CharsOf(p)), "el") ELSE <<>>,
   dom |-> ClearSpans(FastCallRefs(<<>>, Len(CharsOf(p)), "el"),
                      [i \in 1..MaxLen |->
                         IF i <= Len(CharsOf(p)) THEN F.dom[i] ELSE Blank]),
   fetchCalls |-> 0, onFinishCalls |-> 0, attempt |-> NoAttempt]

\* the hidden input is rendered only while report is null
InputMounted(S) == S.report = NoReport

----------------------------------------------------------------------------
(* Actions *)

SetState(S) ==
  /\ problem' = S.problem
  /\ autoSubmit' = S.autoSubmit
  /\ onFinish' = S.onFinish
  /\ pos' = S.pos
  /\ startTsRef' = S.startTsRef
  /\ finishedRef' = S.finishedRef
  /\ report' = S.report
  /\ spansRef' = S.spansRef
  /\ dom' = S.dom
  /\ fetchCalls' = S.fetchCalls
  /\ onFinishCalls' = S.onFinishCalls
  /\ attempt' = S.attempt
  /\ currentAcc' = S.currentAcc
  /\ now' = S.now

\* a step of a specification that follows the component alone
Set(S) ==
  /\ SetState(S)
  /\ UNCHANGED <<wpmCall, posts, geo, fast, rendering, server, aux>>

KeyDown ==
  /\ InputMounted(Cur)
  /\ \E e \in KeyEvents : Set(KeyStep(Cur, e))

Paste ==
  /\ InputMounted(Cur)
  /\ Set(PasteStep(Cur))

ClickReset == Set(ResetStep(Cur))

ChangeProblem ==
  \E p \in 1..Len(Problems) : p # problem /\ Set(ChangeStep(Cur, p))

\* time passes
Tick ==
  /\ now < MaxTime
  /\ Set([Cur EXCEPT !.now = @ + 1])

\* the component as mounted: its first commit attached the refs and its
\* layout effect then emptied spansRef
----------------------------------------------------------------------------
(* server/index.js: the attempts of db.json.  An attempt is modelled by its *)
(* id, problemId, wpm, accuracy and createdAt; user, rawText and durationMs *)
(* are copied from the body and play no part.                               *)

\* at most MaxRequests POSTs are received, and the server clock runs from 1
\* to MaxClock
MaxRequests == 3
MaxClock == 2

\* the leaderboard is read from stores of up to MaxStored attempts
MaxStored == 54

\* body.wpm > 300
CheatWpm == 300

\* attempts.slice(0, 50)
BoardSize == 50

\* req.body.problemId and req.query.problemId; "" stands for none given
ProblemIds == {"", "p1", "p2"}

\* the bodies posted
Bodies == [problemId : ProblemIds, wpm : {200, 300, 301}, accuracy : {100}]

NoStored == [id |-> 0, problemId |-> "", wpm |-> 0, accuracy |-> 0,
             createdAt |-> 0]

NoBoard == [set |-> FALSE, problemId |-> "", attempts |-> <<>>]

\* after initDB(): no attempt stored, no request in flight
ServerInit ==
  [file |-> <<>>, data |-> <<>>, reqs |-> <<>>, writes |-> <<>>, ids |-> 0,
   clock |-> 1, board |-> NoBoard]

\* the handler of POST /api/attempts up to its first await: the two checks
\* answer 400, otherwise db.read() is awaited
PostReceive(sv, body) ==
  LET req == [body |-> body, pc |-> "reading", status |-> 0, error |-> "",
              attempt |-> NoStored, snapshot |-> <<>>]
  IN [sv EXCEPT !.reqs =
        Append(@, IF body.problemId = ""
                  THEN [req EXCEPT !.pc = "done", !.status = 400,
                                   !.error = "invalid"]
                  ELSE IF body.wpm > CheatWpm
                  THEN [req EXCEPT !.pc = "done", !.status = 400,
                                   !.error = "cheat_detected"]
                  ELSE req)]

\* the handler of request i from the return of db.read() to its await of
\* db.write(), at time t: db.read() has replaced db.data by the content of the
\* file, the attempt is pushed, and db.write() serialises db.data as it is
PostReadDone(sv, i, t) ==
  LET pushed == [id |-> sv.ids + 1, problemId |-> sv.reqs[i].body.problemId,
                 wpm |-> sv.reqs[i].body.wpm,
                 accuracy |-> sv.reqs[i].body.accuracy, createdAt |-> t]
      data == Append(sv.file, pushed)
  IN [sv EXCEPT !.data = data, !.ids = @ + 1, !.clock = t,
                !.writes = Append(@, i),
                !.reqs[i] = [@ EXCEPT !.pc = "writing", !.attempt = pushed,
                                      !.snapshot = data]]

\* the oldest write lands in the file and its handler answers
\* res.json({ success: true, attempt })
PostWriteDone(sv) ==
  LET i == Head(sv.writes)
  IN [sv EXCEPT !.file = sv.reqs[i].snapshot, !.writes = Tail(@),
                !.reqs[i] = [@ EXCEPT !.pc = "done", !.status = 200]]

\* (a, b) => b.wpm - a.wpm || b.accuracy - a.accuracy
CompareWpmOnly(a, b) == b.wpm - a.wpm
Compare(a, b) ==
  IF b.wpm - a.wpm # 0 THEN b.wpm - a.wpm ELSE b.accuracy - a.accuracy

\* Array.prototype.sort with Compare: the sort is stable, so an element comes
\* before another iff it compares lower, or equal and was before it
Sort(arr) ==
  LET n == Len(arr)
      Before(i, j) ==
        \/ Compare(arr[i], arr[j]) < 0
        \/ Compare(arr[i], arr[j]) = 0 /\ i < j
      rank == [i \in 1..n |-> 1 + Cardinality({j \in 1..n : Before(j, i)})]
      at == [r \in 1..n |-> CHOOSE i \in 1..n : rank[i] = r]
  IN [r \in 1..n |-> arr[at[r]]]

\* attempts.slice(0, 50)
Slice(arr) ==
  SubSeq(arr, 1, IF Len(arr) < BoardSize THEN Len(arr) ELSE BoardSize)

\* the handler of GET /api/leaderboard?problemId=q after its db.read()
Leaderboard(sv, q) ==
  LET Wanted(a) == IF q # "" THEN a.problemId = q ELSE TRUE
      attempts == SelectSeq(sv.file, Wanted)
  IN [sv EXCEPT !.data = sv.file,
                !.board = [set |-> TRUE, problemId |-> q,
                           attempts |-> Slice(Sort(attempts))]]

\* a store of n attempts posted one after the other: the k-th multiples give
\* the wpm, so that equal wpm meet different accuracies
Stored(n, k) ==
  [i \in 1..n |->
     [id |-> i, problemId |-> IF i % 20 = 0 THEN "p2" ELSE "p1",
      wpm |-> ((i * k) % 7) * 50, accuracy |-> 100 - (i % 4) * 5,
      createdAt |-> 1]]

InitSession ==
  /\ problem \in 1..Len(Problems)
  /\ autoSubmit \in BOOLEAN
  /\ onFinish \in BOOLEAN
  /\ pos = 0
  /\ startTsRef = 0
  /\ finishedRef = FALSE
  /\ report = NoReport
  /\ spansRef = <<>>
  /\ dom = BlankDom
  /\ fetchCalls = 0
  /\ onFinishCalls = 0
  /\ attempt = NoAttempt
  /\ currentAcc = 100
  /\ now = 1

\* the geometry after the mount: the layout effect emptied spansRef and
\* requested a frame; the [pos] effect placed the caret through a frame; the
\* mount effect measured the emptied spansRef and placed the caret at once
InitGeo ==
  /\ cachedRects = <<>>
  /\ caret = [at |-> Origin, move |-> "instant", transition |-> Removed]
  /\ raf = <<Measure, Transform(Origin)>>
  /\ width = "narrow"
  /\ queried = TRUE

----------------------------------------------------------------------------
(* TypingTest.jsx: typed, currentIndex, and the currentIndex the registered *)
(* keydown listener closed over                                             *)

\* at most MaxTyped characters are typed, and currentIndex is followed down
\* to -MaxTyped
MaxTyped == 3

\* the keys pressed on the window
TestKeys == {e \in KeyEvents : ~e.mod /\ e.key \in {"a", "b", "Backspace", "Enter"}}

\* prev.slice(0, -1)
DropLast(arr) == IF arr = <<>> THEN <<>> ELSE SubSeq(arr, 1, Len(arr) - 1)

\* handleKeyDown(e) of the registered listener: its test currentIndex > 0
\* reads the currentIndex of the render that registered it, its updates are
\* functional
TestHandleKeyDown(T, e) ==
  IF Len(e.key) = 1
  THEN [T EXCEPT !.typed = Append(@, e.key), !.currentIndex = @ + 1]
  ELSE IF e.key = "Backspace" /\ T.listener > 0
  THEN [T EXCEPT !.typed = DropLast(@), !.currentIndex = @ - 1]
  ELSE T

\* the cleanup and the body of useEffect([currentIndex]): the listener of
\* the last render replaces the registered one
TestEffect(T) == [T EXCEPT !.listener = T.currentIndex]

\* restartTest()
RestartTest(T) == [T EXCEPT !.typed = <<>>, !.currentIndex = 0]

\* no twin run is followed
NoTwin == [set |-> FALSE]

\* TypingTest as mounted: useState([]), useState(0), and the listener its
\* effect registered
TestInit == [typed |-> <<>>, currentIndex |-> 0, listener |-> 0]

InitAux == firstKey = 0 /\ twin = NoTwin /\ test = TestInit

Init ==
  /\ InitAux
  /\ InitSession /\ wpmCall = NoCall /\ posts = <<>> /\ InitGeo
  /\ fast = FastInit /\ rendering = NoRendering /\ server = ServerInit

Next == KeyDown \/ Paste \/ ClickReset \/ ChangeProblem

Spec == Init /\ [][Next]_vars

NextTimed == Next \/ Tick

SpecTimed == Init /\ [][NextTimed]_vars

\* The component with the requests it sends: a keystroke that completes a
\* session under autoSubmit leaves a POST pending; the promise of a pending
\* POST is later fulfilled (the server answered success or HTTP 400) or
\* rejected (network error), whatever the component has done meanwhile.
KeyDownPost ==
  /\ InputMounted(Cur)
  /\ \E e \in KeyEvents :
       /\ SetState(KeyStep(Cur, e))
       /\ posts' = IF KeyStep(Cur, e).fetchCalls > fetchCalls
                   THEN Append(posts, "pending") ELSE posts
       /\ Len(posts') <= MaxPosts
  /\ UNCHANGED <<wpmCall, geo, fast, rendering, server, aux>>

FetchFulfilled ==
  \E i \in 1..Len(posts), answer \in {"saved", "refused"} :
    /\ posts[i] = "pending"
    /\ posts' = [posts EXCEPT ![i] = answer]
    /\ SetState(Cur)
    /\ UNCHANGED <<wpmCall, geo, fast, rendering, server, aux>>

FetchRejected ==
  \E i \in 1..Len(posts) :
    /\ posts[i] = "pending"
    /\ posts' = [posts EXCEPT ![i] = "failed"]
    /\ SetState(CatchStep(Cur))
    /\ UNCHANGED <<wpmCall, geo, fast, rendering, server, aux>>

InitPost == Init /\ autoSubmit

\* the prompt stays the one mounted: sessions follow one another by reset
NextPost ==
  KeyDownPost \/ Paste \/ ClickReset \/ FetchFulfilled \/ FetchRejected

SpecPost == InitPost /\ [][NextPost]_vars

\* The component with its geometry cache and caret, for a user who types
\* the keys of CaretKeys, resets, resizes the window between the widths of
\* Widths, and is given other prompts, while animation frames come at any
\* time; at most MaxPending callbacks wait for a frame.
SetGeo(G) ==
  /\ cachedRects' = G.cachedRects
  /\ caret' = G.caret
  /\ raf' = G.raf
  /\ width' = G.width
  /\ queried' = G.queried

KeyDownCaret ==
  /\ InputMounted(Cur)
  /\ \E e \in CaretKeys :
       /\ Len(KeyGeo(Cur, Geo, e).raf) <= MaxPending
       /\ SetState(KeyStep(Cur, e))
       /\ SetGeo(KeyGeo(Cur, Geo, e))
  /\ UNCHANGED <<wpmCall, posts, fast, rendering, server, aux>>

ClickResetCaret ==
  /\ Len(ResetGeo(Cur, Geo).raf) <= MaxPending
  /\ SetState(ResetStep(Cur))
  /\ SetGeo(ResetGeo(Cur, Geo))
  /\ UNCHANGED <<wpmCall, posts, fast, rendering, server, aux>>

ChangeProblemCaret ==
  /\ \E p \in 1..Len(Problems) :
       /\ p # problem
       /\ Len(ChangeGeo(Cur, Geo).raf) <= MaxPending
       /\ SetState(ChangeStep(Cur, p))
       /\ SetGeo(ChangeGeo(Cur, Geo))
  /\ UNCHANGED <<wpmCall, posts, fast, rendering, server, aux>>

Resize ==
  /\ \E w \in Widths \ {width} :
       /\ SetState(Cur)
       /\ SetGeo(ResizeGeo(Cur, Geo, w))
  /\ UNCHANGED <<wpmCall, posts, fast, rendering, server, aux>>

Frame ==
  /\ raf # <<>>
  /\ SetState(Cur)
  /\ SetGeo(FrameGeo(Cur, Geo))
  /\ UNCHANGED <<wpmCall, posts, fast, rendering, server, aux>>

InitCaret == Init /\ ~autoSubmit /\ ~onFinish

NextCaret ==
  KeyDownCaret \/ ClickResetCaret \/ ChangeProblemCaret \/ Resize \/ Frame

SpecCaret == InitCaret /\ [][NextCaret]_vars

\* TypingFastCached and TypingFast side by side: both get the same props,
\* the same keys of BothKeys, the same resets and the same prompts.  A key
\* is given while TypingFastCached has its input.
KeyDownBoth ==
  /\ InputMounted(Cur)
  /\ \E e \in BothKeys :
       /\ SetState(KeyStep(Cur, e))
       /\ fast' = FastKeyStep(Cur, fast, e)
  /\ UNCHANGED <<wpmCall, posts, geo, rendering, server, aux>>

ClickResetBoth ==
  /\ SetState(ResetStep(Cur))
  /\ fast' = FastResetStep(Cur, fast)
  /\ UNCHANGED <<wpmCall, posts, geo, rendering, server, aux>>

ChangeProblemBoth ==
  /\ \E p \in 1..Len(Problems) :
       /\ p # problem
       /\ SetState(ChangeStep(Cur, p))
       /\ fast' = FastChangeStep(Cur, fast, p)
  /\ UNCHANGED <<wpmCall, posts, geo, rendering, server, aux>>

\* a keydown while TypingFastCached shows its summary: TypingFast, which
\* renders no summary, still has its input and handles the key
KeyDownFast ==
  /\ ~InputMounted(Cur)
  /\ \E e \in BothKeys : fast' = FastKeyStep(Cur, fast, e)
  /\ UNCHANGED <<problem, autoSubmit, onFinish, pos, startTsRef, finishedRef,
                 report, spansRef, dom, fetchCalls, onFinishCalls, attempt,
                 currentAcc, now, wpmCall, posts, geo, rendering, server, aux>>

InitBoth == Init /\ autoSubmit /\ onFinish

NextBoth == KeyDownBoth \/ KeyDownFast \/ ClickResetBoth \/ ChangeProblemBoth

SpecBoth == InitBoth /\ [][NextBoth]_vars

\* the render of a problem object: text, then chars
RenderText ==
  /\ rendering.outcome = "pending"
  /\ rendering' =
       LET r == Spread(TextProp(rendering.problem))
       IN [rendering EXCEPT
             !.outcome = IF r.threw THEN "TypeError" ELSE "rendered",
             !.chars = r.chars]
  /\ UNCHANGED <<problem, autoSubmit, onFinish, pos, startTsRef, finishedRef,
                 report, spansRef, dom, fetchCalls, onFinishCalls, attempt,
                 currentAcc, now, wpmCall, posts, geo, fast, server, aux>>

InitText ==
  /\ InitSession /\ wpmCall = NoCall /\ posts = <<>> /\ InitGeo
  /\ fast = FastInit /\ server = ServerInit /\ InitAux
  /\ problem = 4
  /\ rendering \in {[problem |-> [code |-> c, text |-> t],
                     outcome |-> "pending", chars |-> <<>>] :
                      c \in TextValues, t \in TextValues}

NextText == RenderText

SpecText == InitText /\ [][NextText]_vars

\* the server alone: the session is frozen
SetServer(sv) ==
  /\ server' = sv
  /\ UNCHANGED <<problem, autoSubmit, onFinish, pos, startTsRef, finishedRef,
                 report, spansRef, dom, fetchCalls, onFinishCalls, attempt,
                 currentAcc, now, wpmCall, posts, geo, fast, rendering,
                 aux>>

\* a POST /api/attempts arrives
PostAttempt ==
  /\ Len(server.reqs) < MaxRequests
  /\ \E body \in Bodies : SetServer(PostReceive(server, body))

\* an awaited db.read() returns
ReadDone ==
  \E i \in 1..Len(server.reqs), t \in 1..MaxClock :
    /\ server.reqs[i].pc = "reading"
    /\ t >= server.clock
    /\ SetServer(PostReadDone(server, i, t))

\* an awaited db.write() returns
WriteDone ==
  /\ server.writes # <<>>
  /\ SetServer(PostWriteDone(server))

\* the db.read() awaited by GET /api/problems, /api/problems/:id or
\* /api/leaderboard returns: db.data is replaced by the content of the file
GetReadDone ==
  /\ server.data # server.file
  /\ SetServer([server EXCEPT !.data = server.file])

InitServer == Init /\ problem = 1 /\ ~autoSubmit /\ ~onFinish

NextServer == PostAttempt \/ ReadDone \/ WriteDone \/ GetReadDone

SpecServer == InitServer /\ [][NextServer]_vars

\* a GET /api/leaderboard on a store of attempts
GetLeaderboard ==
  \E q \in ProblemIds : SetServer(Leaderboard(server, q))

InitBoard ==
  /\ InitSession /\ wpmCall = NoCall /\ posts = <<>> /\ InitGeo
  /\ fast = FastInit /\ rendering = NoRendering /\ InitAux
  /\ problem = 1 /\ ~autoSubmit /\ ~onFinish
  /\ \E n \in 0..MaxStored, k \in 1..6 :
       server = [ServerInit EXCEPT !.file = Stored(n, k), !.data = Stored(n, k),
                                   !.ids = n]

NextBoard == GetLeaderboard

SpecBoard == InitBoard /\ [][NextBoard]_vars

\* a keystroke the session accepts: a printable key, Enter, Tab, or a
\* Backspace at a position > 0
Accepted(S, e) ==
  \/ ~e.mod /\ (Len(e.key) = 1 \/ e.key \in {"Enter", "Tab"})
  \/ ~e.mod /\ e.key = "Backspace" /\ S.pos > 0

\* The component with a clock: firstKey follows the session, which begins at
\* the mount, at a reset and at a prompt change
SetTimed(S, first) ==
  /\ SetState(S)
  /\ firstKey' = first
  /\ UNCHANGED <<wpmCall, posts, geo, fast, rendering, server, twin, test>>

KeyDownTimed ==
  /\ InputMounted(Cur)
  /\ \E e \in TimedKeys :
       SetTimed(KeyStep(Cur, e),
                IF e.key = "Escape" THEN 0
                ELSE IF firstKey = 0 /\ Accepted(Cur, e) THEN now
                ELSE firstKey)

ClickResetTimed == SetTimed(ResetStep(Cur), 0)

ChangeProblemTimed ==
  \E p \in 1..Len(Problems) : p # problem /\ SetTimed(ChangeStep(Cur, p), 0)

InitDuration == Init /\ ~autoSubmit /\ ~onFinish

NextDuration ==
  KeyDownTimed \/ ClickResetTimed \/ ChangeProblemTimed \/ Tick

SpecDuration == InitDuration /\ [][NextDuration]_vars

\* Two runs of the component given the same props and the same events, each
\* with its own clock
SetTwin(S, T) ==
  /\ SetState(S)
  /\ twin' = T
  /\ UNCHANGED <<wpmCall, posts, geo, fast, rendering, server, firstKey, test>>

KeyDownTwin ==
  /\ InputMounted(Cur)
  /\ \E e \in TimedKeys :
       SetTwin(KeyStep(Cur, e),
               IF InputMounted(twin) THEN KeyStep(twin, e) ELSE twin)

ClickResetTwin == SetTwin(ResetStep(Cur), ResetStep(twin))

ChangeProblemTwin ==
  \E p \in 1..Len(Problems) :
    p # problem /\ SetTwin(ChangeStep(Cur, p), ChangeStep(twin, p))

\* time passes in the second run
TickTwin ==
  /\ twin.now < MaxTime
  /\ SetTwin(Cur, [twin EXCEPT !.now = @ + 1])

InitTwin ==
  /\ InitSession /\ ~autoSubmit /\ ~onFinish
  /\ wpmCall = NoCall /\ posts = <<>> /\ InitGeo /\ fast = FastInit
  /\ rendering = NoRendering /\ server = ServerInit
  /\ firstKey = 0 /\ test = TestInit
  /\ twin = Cur

NextTwin ==
  KeyDownTwin \/ ClickResetTwin \/ ChangeProblemTwin \/ Tick \/ TickTwin

SpecTwin == InitTwin /\ [][NextTwin]_vars

\* TypingTest alone
SetTest(T) ==
  /\ test' = T
  /\ UNCHANGED <<problem, autoSubmit, onFinish, pos, startTsRef, finishedRef,
                 report, spansRef, dom, fetchCalls, onFinishCalls, attempt,
                 currentAcc, now, wpmCall, posts, geo, fast, rendering, server,
                 firstKey, twin>>

\* a keydown on the window, handled by the registered listener
TestKeyDown ==
  /\ Len(test.typed) < MaxTyped
  /\ test.currentIndex > -MaxTyped
  /\ \E e \in TestKeys : SetTest(TestHandleKeyDown(test, e))

\* the effect of the last commit runs
TestEffectRuns ==
  /\ test.listener # test.currentIndex
  /\ SetTest(TestEffect(test))

\* a click on Restart
TestRestart == SetTest(RestartTest(test))

InitTest == Init /\ problem = 1 /\ ~autoSubmit /\ ~onFinish

NextTest == TestKeyDown \/ TestEffectRuns \/ TestRestart

SpecTest == InitTest /\ [][NextTest]_vars

\* calcWPM on its own: a call with its arguments, then its return
InitWPM ==
  /\ InitSession
  /\ problem = 1 /\ autoSubmit /\ onFinish
  /\ posts = <<>>
  /\ InitGeo
  /\ fast = FastInit /\ rendering = NoRendering /\ server = ServerInit
  /\ InitAux
  /\ wpmCall \in {[charsCount |-> n, ms |-> m, wpm |-> NoWpm] :
                    n \in 0..MaxChars, m \in MsValues}

ReturnWPM ==
  /\ wpmCall.wpm = NoWpm
  /\ wpmCall' = [wpmCall EXCEPT !.wpm = calcWPM(wpmCall.charsCount, wpmCall.ms)]
  /\ UNCHANGED <<problem, autoSubmit, onFinish, pos, startTsRef, finishedRef,
                 report, spansRef, dom, fetchCalls, onFinishCalls, attempt,
                 currentAcc, now, posts, geo, fast, rendering,
                 server, aux>>

NextWPM == ReturnWPM

SpecWPM == InitWPM /\ [][NextWPM]_vars

----------------------------------------------------------------------------
(* Session State, read off a state S: position i of the prompt (1-based)   *)
(* carries the verdict class and the typed character of its span.          *)

Len_chars(S) == Len(CharsOf(S.problem))

\* the verdict of prompt position i (1-based) with its typed character:
\* the class and dataset of the span the render shows for it; the span of
\* a newline is rendered without class and is never read
VerdictAt(S, i) == IF CharsOf(S.problem)[i] = NL THEN Blank ELSE S.dom[i]

\* the verdicts, one per prompt position
Verdicts(S) == [i \in 1..Len_chars(S) |-> VerdictAt(S, i)]

TypedCount(S) ==
  Cardinality({i \in 1..Len_chars(S) : VerdictAt(S, i).cls # "none"})

AllUntyped(S) == \A i \in 1..Len_chars(S) : VerdictAt(S, i) = Blank

Printable == {e \in KeyEvents : Len(e.key) = 1 /\ ~e.mod}
EnterKey == [key |-> "Enter", mod |-> FALSE]
TabKey == [key |-> "Tab", mod |-> FALSE]
BackspaceKey == [key |-> "Backspace", mod |-> FALSE]
EscapeKey == [key |-> "Escape", mod |-> FALSE]

\* the paste shortcut: Ctrl/Cmd+V
PasteKeys == {e \in KeyEvents : e.mod /\ ToLowerCase(e.key) = "v"}

\* the keys handleKeyDown has no branch for
Unrecognized ==
  {e \in KeyEvents \ PasteKeys :
     /\ e.key \notin {"Backspace", "Enter", "Tab", "Escape"}
     /\ Len(e.key) > 1}

----------------------------------------------------------------------------
(* Claims *)

\* C1: in every reachable state, position equals the number of prompt
\* positions whose verdict is not untyped.
C1_PositionCountsVerdicts == pos = TypedCount(Cur)

\* C2: for a non-empty prompt, the input event that makes position equal to
\* length(chars) also finishes the session and emits the Attempt Record.
C2_CompletionInSameEvent ==
  \A e \in KeyEvents :
    (InputMounted(Cur) /\ Len(chars) > 0 /\ pos < Len(chars)
       /\ KeyStep(Cur, e).pos = Len(chars))
    => (KeyStep(Cur, e).finishedRef /\ KeyStep(Cur, e).attempt.set)

\* C3: between two resets or prompt changes the Attempt Record is handed to
\* the submission collaborator at most once and the completion callback is
\* invoked at most once; a finished session stays at that one emission
\* whatever event follows.
C3_AtMostOneSubmission ==
  /\ fetchCalls <= 1
  /\ onFinishCalls <= 1
  /\ finishedRef => (fetchCalls = (IF autoSubmit THEN 1 ELSE 0) \/ ~attempt.set)
  /\ \A e \in KeyEvents :
       finishedRef =>
         /\ KeyStep(Cur, e).fetchCalls <= fetchCalls
         /\ KeyStep(Cur, e).onFinishCalls <= onFinishCalls

\* a finished session that submitted once and called back once
C3_Witness ==
  /\ finishedRef /\ attempt.set /\ fetchCalls = 1 /\ onFinishCalls = 1
  /\ Len(attempt.rawText) > 0

\* C4: a prompt change resets the Session State: position 0, every verdict
\* untyped, startTimestamp unset, finished false, no report carried over.
C4_PromptChangeResets ==
  \A p \in 1..Len(Problems) :
    p # problem =>
      LET S1 == ChangeStep(Cur, p)
      IN /\ S1.pos = 0
         /\ AllUntyped(S1)
         /\ S1.startTsRef = 0
         /\ ~S1.finishedRef
         /\ S1.report = NoReport

\* S after four consecutive keydowns of the space bar
FourSpaces(S) ==
  LET sp == [key |-> SP, mod |-> FALSE]
  IN KeyStep(KeyStep(KeyStep(KeyStep(S, sp), sp), sp), sp)

\* C5: with at least 4 positions remaining, one Tab advances position by 4,
\* sets the verdicts of the 4 positions (correct where the prompt has a
\* space) and leaves what four consecutive space keystrokes leave.
C5_TabIsFourSpaces ==
  (InputMounted(Cur) /\ pos + 4 <= Len(chars)) =>
    LET S1 == KeyStep(Cur, TabKey)
    IN /\ S1.pos = pos + 4
       /\ \A i \in (pos + 1)..(pos + 4) :
            VerdictAt(S1, i) =
              [cls |-> IF chars[i] = SP THEN "correct" ELSE "incorrect", typed |-> SP]
       /\ S1.pos = FourSpaces(Cur).pos
       /\ Verdicts(S1) = Verdicts(FourSpaces(Cur))

\* C6: a printable character c typed at position p < length(chars) sets
\* verdicts[p] to correct iff c = chars[p], stores c as the typed character
\* of p, increments position by exactly 1 and changes no other verdict.
C6_PrintableSetsVerdict ==
  \A e \in Printable :
    (InputMounted(Cur) /\ pos < Len(chars)) =>
      LET S1 == KeyStep(Cur, e)
      IN /\ VerdictAt(S1, pos + 1) =
              [cls   |-> IF e.key = chars[pos + 1] THEN "correct" ELSE "incorrect",
               typed |-> e.key]
         /\ S1.pos = pos + 1
         /\ \A i \in 1..Len(chars) :
              i # pos + 1 => VerdictAt(S1, i) = VerdictAt(Cur, i)

C8_BackspaceInverse ==
  \A e \in Printable \cup {EnterKey} :
    InputMounted(Cur) =>
      LET S1 == KeyStep(Cur, e)
      IN InputMounted(S1) =>
           LET S2 == KeyStep(S1, BackspaceKey)
           IN S2.pos = pos /\ Verdicts(S2) = Verdicts(Cur)

\* C9: Backspace never changes startTimestamp or finished; at position 0 it
\* changes no component of Session State; at position p > 0 it only
\* decrements position and resets verdicts[p-1] to untyped.
C9_BackspaceFrame ==
  InputMounted(Cur) =>
    LET S1 == KeyStep(Cur, BackspaceKey)
    IN /\ S1.startTsRef = startTsRef
       /\ S1.finishedRef = finishedRef
       /\ pos = 0 => (S1.pos = 0 /\ Verdicts(S1) = Verdicts(Cur))
       /\ pos > 0 =>
            /\ S1.pos = pos - 1
            /\ \A i \in 1..Len(chars) :
                 VerdictAt(S1, i) = IF i = pos THEN Blank ELSE VerdictAt(Cur, i)

\* the states Escape and the reset command lead to from S
Resets(S) ==
  {ResetStep(S)} \cup (IF InputMounted(S) THEN {KeyStep(S, EscapeKey)} ELSE {})

\* C10: Escape or the reset command yields position 0, every verdict
\* untyped, startTimestamp unset and finished false, and a second reset
\* changes nothing more.
C10_ResetReinitializes ==
  \A S1 \in Resets(Cur) :
    /\ S1.pos = 0
    /\ AllUntyped(S1)
    /\ S1.startTsRef = 0
    /\ ~S1.finishedRef
    /\ \A S2 \in Resets(S1) : S2 = S1

\* C11: startTimestamp is set to the current time by the first accepted
\* keystroke (printable, Enter, Tab, Backspace at a position > 0) and, once
\* set, keeps its value under every later key event but Escape; Escape,
\* Backspace at position 0 and a rejected paste never set it.
C11_StartTimestamp ==
  \A e \in KeyEvents :
    InputMounted(Cur) =>
      LET S1 == KeyStep(Cur, e)
          accepted == \/ e \in Printable \cup {EnterKey, TabKey}
                      \/ (e = BackspaceKey /\ pos > 0)
          excluded == \/ e = EscapeKey
                      \/ (e = BackspaceKey /\ pos = 0)
                      \/ e \in PasteKeys
      IN /\ (accepted /\ startTsRef = 0) => S1.startTsRef = now
         /\ (startTsRef # 0 /\ e # EscapeKey) => S1.startTsRef = startTsRef
         /\ (excluded /\ startTsRef = 0) => S1.startTsRef = 0
         /\ startTsRef = 0 => PasteStep(Cur).startTsRef = 0

\* C12: an unrecognized non-printable key is a no-op in every state:
\* position, verdicts, startTimestamp and finished are unchanged.
C12_UnrecognizedKeyNoOp ==
  \A e \in Unrecognized :
    InputMounted(Cur) =>
      LET S1 == KeyStep(Cur, e)
      IN /\ S1.pos = pos
         /\ Verdicts(S1) = Verdicts(Cur)
         /\ S1.startTsRef = startTsRef
         /\ S1.finishedRef = finishedRef

\* C13: a paste, by the paste event or by the Ctrl/Cmd+V shortcut, is
\* rejected in every state: it leaves every component of the state as it
\* was, adds no character and does not start the timer.
C13_PasteRejected ==
  InputMounted(Cur) =>
    /\ PasteStep(Cur) = Cur
    /\ \A e \in PasteKeys : KeyStep(Cur, e) = Cur

\* a session under way where the key v alone would be typed and the paste
\* shortcut is not
C13_Witness ==
  /\ InputMounted(Cur) /\ ~finishedRef
  /\ pos > 0 /\ pos < Len(chars) /\ TypedCount(Cur) > 0
  /\ KeyStep(Cur, [key |-> "v", mod |-> FALSE]).pos = pos + 1
  /\ \A e \in PasteKeys : KeyStep(Cur, e).pos = pos

\* C14: Enter at a position p < length(chars) has the effect of the
\* printable-character transition with the newline character: verdicts[p]
\* becomes correct iff chars[p] is a newline, the newline is stored as the
\* typed character of p and position becomes p + 1.
C14_EnterTypesNewline ==
  (InputMounted(Cur) /\ ~finishedRef /\ pos < Len(chars)) =>
    LET S1 == KeyStep(Cur, EnterKey)
    IN /\ S1.pos = pos + 1
       /\ S1.dom[pos + 1] =
            [cls   |-> IF chars[pos + 1] = NL THEN "correct" ELSE "incorrect",
             typed |-> NL]

\* the key that types the character c
KeyFor(c) == IF c = NL THEN EnterKey ELSE [key |-> c, mod |-> FALSE]

\* S after the keys of the prompt's characters from position i on, in order
RECURSIVE TypeFrom(_, _)
TypeFrom(S, i) ==
  IF i > Len_chars(S) \/ ~InputMounted(S) THEN S
  ELSE TypeFrom(KeyStep(S, KeyFor(CharsOf(S.problem)[i])), i + 1)

\* a session nothing has been typed in
Fresh(S) ==
  /\ S.pos = 0 /\ S.startTsRef = 0 /\ ~S.finishedRef /\ S.report = NoReport
  /\ AllUntyped(S)

\* C15: on a non-empty prompt, typing exactly its characters in order
\* (Enter for a newline) completes the session with accuracy 100 and a
\* rawText equal to the prompt's characters.
C15_RoundTrip ==
  (Fresh(Cur) /\ Len(chars) > 0) =>
    LET S1 == TypeFrom(Cur, 1)
    IN /\ S1.finishedRef
       /\ S1.attempt.set
       /\ S1.attempt.accuracy = 100
       /\ S1.attempt.rawText = chars

\* C16: the record emitted at completion carries as rawText the typed
\* character of every prompt position in order, length(chars) characters,
\* and an accuracy computed over all of them.
C16_RawTextCoversPrompt ==
  \A e \in KeyEvents :
    (InputMounted(Cur) /\ ~finishedRef /\ KeyStep(Cur, e).finishedRef) =>
      LET A == KeyStep(Cur, e).attempt
          correct == Cardinality({i \in 1..Len(chars) :
                                    VerdictAt(Cur, i).cls = "correct"})
      IN /\ A.set
         /\ Len(A.rawText) = Len(chars)
         /\ A.rawText = [i \in 1..Len(chars) |-> VerdictAt(Cur, i).typed]
         /\ A.accuracy = IF Len(chars) = 0 THEN 100
                         ELSE Round(100 * correct, Len(chars))

\* C17: a session on an empty prompt is complete on load, without any
\* keystroke, with a record of durationMs 0, accuracy 100, wpm 0 and an
\* empty rawText.
C17_EmptyPromptCompletesOnLoad ==
  (Len(chars) = 0 /\ pos = 0) =>
    /\ finishedRef
    /\ attempt.set
    /\ attempt.durationMs = 0
    /\ attempt.accuracy = 100
    /\ attempt.wpm = 0
    /\ attempt.rawText = <<>>

\* C18: calcWPM(n, ms) is round((n / 5) / (ms / 60000)), that is the
\* quotient 12000 * n / ms rounded to the nearest integer (halves up), for
\* n >= 0 and ms > 0; it is 0 when ms = 0 or n = 0; it is always defined, and
\* 25 characters in 60000 ms give 5.
C18_WordsPerMinute ==
  wpmCall.wpm # NoWpm =>
    /\ wpmCall.wpm \in Nat
    /\ wpmCall.wpm = IF wpmCall.ms = 0 \/ wpmCall.charsCount = 0 THEN 0
                     ELSE Round(12000 * wpmCall.charsCount, wpmCall.ms)
    /\ (wpmCall.charsCount = 25 /\ wpmCall.ms = 60000) => wpmCall.wpm = 5

\* round(100 * correctCount / typedCount) over the verdicts of S, 100 when
\* no position is typed
AccuracyOfVerdicts(S) ==
  LET typedCount == TypedCount(S)
      correctCount == Cardinality({i \in 1..Len_chars(S) :
                                     VerdictAt(S, i).cls = "correct"})
  IN IF typedCount = 0 THEN 100 ELSE Round(100 * correctCount, typedCount)

\* C19: accuracy is 100 when no position has been typed, otherwise
\* round(100 * correctCount / typedCount) over the verdicts that are not
\* untyped; live or in an emitted record it lies in [0, 100].
C19_AccuracyOfVerdicts ==
  /\ currentAcc \in 0..100
  /\ attempt.set => attempt.accuracy \in 0..100
  /\ InputMounted(Cur) => currentAcc = AccuracyOfVerdicts(Cur)
  /\ \A e \in KeyEvents :
       (InputMounted(Cur) /\ ~finishedRef /\ KeyStep(Cur, e).finishedRef) =>
         KeyStep(Cur, e).attempt.accuracy = AccuracyOfVerdicts(Cur)

\* C20: the event that completes a session invokes the completion callback,
\* when supplied, exactly once, whether or not auto-submission is enabled,
\* and calls the submission collaborator in that same event exactly when
\* auto-submission is enabled.
C20_CallbackOnCompletion ==
  /\ fetchCalls > 0 => autoSubmit
  /\ onFinishCalls > 0 => onFinish
  /\ \A e \in KeyEvents :
       (InputMounted(Cur) /\ ~finishedRef /\ KeyStep(Cur, e).finishedRef) =>
         LET S1 == KeyStep(Cur, e)
         IN /\ S1.attempt.set
            /\ S1.onFinishCalls = onFinishCalls + (IF onFinish THEN 1 ELSE 0)
            /\ S1.fetchCalls = fetchCalls + (IF autoSubmit THEN 1 ELSE 0)
            /\ onFinishCalls = 0 /\ fetchCalls = 0

\* a completed session without auto-submission whose callback was invoked
\* once and whose record was not submitted
C20_Witness ==
  /\ finishedRef /\ attempt.set /\ Len(attempt.rawText) > 0
  /\ ~autoSubmit /\ onFinish
  /\ onFinishCalls = 1 /\ fetchCalls = 0

\* C21: a step in which a pending POST fails (the promise is rejected, or
\* the server refuses the attempt) changes nothing of the component: the
\* session stays finished, with its position, verdicts and start timestamp.
\* It is never retried: no POST is made by that step, and a POST is only ever
\* made by a session that was not finished and had not posted.
C21_FailedSubmission ==
  [][ /\ (\E i \in 1..Len(posts) :
            posts[i] = "pending" /\ posts'[i] \in {"failed", "refused"}) =>
          (Cur' = Cur /\ Len(posts') = Len(posts))
      /\ Len(posts') > Len(posts) => (~finishedRef /\ fetchCalls = 0)
    ]_vars

\* a finished session whose POST failed, and one whose POST was refused
C21_Witness ==
  /\ finishedRef /\ attempt.set /\ fetchCalls = 1
  /\ \E i \in 1..Len(posts) : posts[i] = "failed"
  /\ \E i \in 1..Len(posts) : posts[i] = "refused"

\* C22: while the prompt is shown, the caret target computed from the cache
\* for the current position p is the cached rectangle of position p when
\* p < length(chars), also when chars[p] is a newline; it is the point right
\* of the last character's rectangle when p = length(chars) > 0; and it is
\* the fallback origin only when the prompt is empty.
C22_CaretTarget ==
  ContainerMounted(Cur) =>
    LET t == CaretTarget(cachedRects, pos)
    IN /\ pos < Len(chars) =>
            /\ pos < Len(cachedRects)
            /\ cachedRects[pos + 1].kind = "rect"
            /\ cachedRects[pos + 1].rect.idx = pos
            /\ t = At(cachedRects[pos + 1])
       /\ (pos = Len(chars) /\ Len(chars) > 0) =>
            /\ Len(cachedRects) = Len(chars)
            /\ cachedRects[Len(chars)].kind = "rect"
            /\ t = After(cachedRects[Len(chars)])
       /\ t = Origin => Len(chars) = 0

\* the ordinary keystrokes: printable, Enter, Tab, Backspace
Ordinary ==
  {e \in KeyEvents \ PasteKeys :
     e.key \in {"Backspace", "Enter", "Tab"} \/ (Len(e.key) = 1 /\ ~e.mod)}

\* C23: an ordinary keystroke leaves the geometry cache as it was and reads
\* no live layout: its caret placement is a pure cache read.
C23_KeystrokeReadsCacheOnly ==
  InputMounted(Cur) =>
    \A e \in Ordinary :
      /\ KeyGeo(Cur, Geo, e).cachedRects = cachedRects
      /\ ~KeyGeo(Cur, Geo, e).queried

\* the cache G holds a rectangle measured from a prompt other than p
HoldsStaleRect(G, p) ==
  \E i \in 1..Len(G.cachedRects) :
    G.cachedRects[i].kind = "rect" /\ G.cachedRects[i].rect.problem # p

\* C24: after a change to prompt p, once the frame the change requested has
\* run, the cache holds exactly one rectangle per character of p, each
\* measured from p, and no rectangle measured from the previous prompt.
C24_RebuildAfterPromptChange ==
  \A p \in 1..Len(Problems) \ {problem} :
    LET G2 == FrameGeo(ChangeStep(Cur, p), ChangeGeo(Cur, Geo))
    IN /\ Len(G2.cachedRects) = Len(CharsOf(p))
       /\ \A i \in 1..Len(G2.cachedRects) :
            G2.cachedRects[i] = RectOf(p, i - 1, width)
       /\ ~HoldsStaleRect(G2, p)

\* C25: TypingFastCached and TypingFast, given the same prompt and the same
\* keys, resets and prompt changes, are at the same position with the same
\* start-timestamp-set flag and the same finished flag, have emitted the same
\* Attempt Records, and show the same verdicts (compared while
\* TypingFastCached shows its prompt: its summary view removes the spans).
C25_SameBehavior ==
  /\ fast.pos = pos
  /\ (fast.startTsRef # 0) = (startTsRef # 0)
  /\ fast.finishedRef = finishedRef
  /\ fast.attempt = attempt
  /\ fast.onFinishCalls = onFinishCalls
  /\ fast.fetchCalls = fetchCalls
  /\ InputMounted(Cur) =>
       \A i \in 1..Len(chars) : fast.dom[i] = VerdictAt(Cur, i)

\* C29: whenever the prompt is shown and no requested frame is pending, the
\* caret is where the cache puts the current position.
C29_CaretNeverStale ==
  (ContainerMounted(Cur) /\ raf = <<>>) =>
    caret.at = CaretTarget(cachedRects, pos)

\* C30: a resize places the caret instantly; with no other frame pending,
\* the frame that follows a reset (Reset, Try Again) moves the caret, if at
\* all, without animation, and the frame that follows an ordinary keystroke
\* moves it, if at all, with the animation.
C30_ResetNeverAnimates ==
  /\ ContainerMounted(Cur) =>
       \A w \in Widths : ResizeGeo(Cur, Geo, w).caret.move = "instant"
  /\ raf = <<>> =>
       LET S1 == ResetStep(Cur)
           G1 == ResetGeo(Cur, Geo)
           G2 == FrameGeo(S1, G1)
       IN G2.caret # G1.caret => G2.caret.move # "animated"
  /\ (raf = <<>> /\ InputMounted(Cur)) =>
       \A e \in Ordinary :
         LET S1 == KeyStep(Cur, e)
             G1 == KeyGeo(Cur, Geo, e)
             G2 == FrameGeo(S1, G1)
         IN G2.caret # G1.caret => G2.caret.move = "animated"

\* C26: the render of a problem whose text is missing or not a string gives
\* an empty prompt, and no render raises.
C26_InvalidTextDegrades ==
  rendering.outcome \notin {"none", "pending"} =>
    /\ rendering.outcome = "rendered"
    /\ TextProp(rendering.problem).type # "string" => rendering.chars = <<>>

\* C27: a POST that lacks problemId or has wpm > 300 is answered 400 and
\* leaves the stored attempts as they are; any other POST is answered with
\* success and appends its one attempt, with an id no stored attempt has and
\* a createdAt; the stored attempts change in no other way.
C27_PostAttempt ==
  [][ LET Answered(i) ==
            /\ server'.reqs[i].pc = "done"
            /\ i <= Len(server.reqs) => server.reqs[i].pc # "done"
          r(i) == server'.reqs[i]
      IN /\ \A i \in 1..Len(server'.reqs) :
              Answered(i) =>
                IF r(i).body.problemId = "" \/ r(i).body.wpm > CheatWpm
                THEN r(i).status = 400 /\ server'.file = server.file
                ELSE /\ r(i).status = 200
                     /\ server'.file = Append(server.file, r(i).attempt)
                     /\ \A j \in 1..Len(server.file) :
                          server.file[j].id # r(i).attempt.id
                     /\ r(i).attempt.createdAt \in 1..MaxClock
         /\ server'.file # server.file =>
              \E i \in 1..Len(server'.reqs) : Answered(i) ]_vars

\* an attempt a ranks above an attempt b on the leaderboard
RanksAbove(a, b) ==
  a.wpm > b.wpm \/ (a.wpm = b.wpm /\ a.accuracy > b.accuracy)

\* C28: the leaderboard of a problem holds at most 50 attempts, all stored
\* attempts of that problem, none twice, none ranked below the one that follows
\* it, and every stored attempt of the problem it leaves out ranks above none
\* of those it holds; it holds fewer than 50 only if it leaves none out.
C28_Leaderboard ==
  (server.board.set /\ server.board.problemId # "") =>
    LET b == server.board.attempts
        of == {j \in 1..Len(server.file) :
                 server.file[j].problemId = server.board.problemId}
        held == {j \in of : \E i \in 1..Len(b) : b[i] = server.file[j]}
    IN /\ Len(b) <= BoardSize
       /\ \A i \in 1..Len(b) : \E j \in of : b[i] = server.file[j]
       /\ \A i, j \in 1..Len(b) : i # j => b[i] # b[j]
       /\ \A i \in 1..(Len(b) - 1) : ~RanksAbove(b[i + 1], b[i])
       /\ \A j \in of \ held, i \in 1..Len(b) : ~RanksAbove(server.file[j], b[i])
       /\ Len(b) < BoardSize => held = of

\* a leaderboard of 50 that leaves attempts of its problem out and orders
\* attempts of equal wpm by their accuracy
C28_Witness ==
  /\ server.board.set /\ server.board.problemId = "p1"
  /\ Len(server.board.attempts) = BoardSize
  /\ Cardinality({j \in 1..Len(server.file) :
                    server.file[j].problemId = "p1"}) > BoardSize
  /\ \E i \in 1..(BoardSize - 1) :
       /\ server.board.attempts[i].wpm = server.board.attempts[i + 1].wpm
       /\ server.board.attempts[i].accuracy
            > server.board.attempts[i + 1].accuracy

\* C31: the Attempt Record a completion emits has durationMs = the time of
\* the completion - the time of the first accepted keystroke of the session,
\* and 0 if the session accepted no keystroke.
C31_Duration ==
  [][ (attempt'.set /\ attempt' # attempt) =>
        attempt'.durationMs = IF firstKey' # 0 THEN now' - firstKey' ELSE 0 ]_vars

C33_FinishedIsComplete ==
  /\ finishedRef => pos >= Len(chars)
  /\ fast.finishedRef => fast.pos >= Len(chars)

\* C34: every attempt acknowledged with { success: true } is in the stored
\* attempts from then on.
C34_AcknowledgedStays ==
  \A i \in 1..Len(server.reqs) :
    server.reqs[i].status = 200 =>
      \E j \in 1..Len(server.file) : server.file[j] = server.reqs[i].attempt

\* C35: in TypingTest currentIndex is the length of the typed buffer and is
\* never negative.
C35_IndexIsTypedLength ==
  /\ test.currentIndex = Len(test.typed)
  /\ test.currentIndex >= 0

====
